---- MODULE Spec2Model ----
(***************************************************************************)
(* Plex MCP server: the JSON-RPC router (mcp_handler.py), the tool         *)
(* handlers' result/error framing (tools/movie_tools.py) and the SSE       *)
(* connection manager with its POST endpoints (main.py), as a state        *)
(* machine of the single asyncio event loop the server runs on.            *)
(***************************************************************************)
EXTENDS Integers, Sequences, FiniteSets, TLC

(***************************************************************************)
(* JSON / Python values.  Every value is a record tagged by its type, so   *)
(* values of different types are comparable.  A dict is a function from    *)
(* its keys to values.                                                     *)
(***************************************************************************)
None == [t |-> "null"]
JStr(s) == [t |-> "str", s |-> s]
JInt(n) == [t |-> "int", n |-> n]
JList == [t |-> "list"]
JDict(f) == [t |-> "dict", d |-> f]
\* A value the handlers fetch from the catalog; its content is not modelled here.
Data == [t |-> "data"]

EmptyMap == [k \in {} |-> None]
EmptyDict == JDict(EmptyMap)

\* type(v).__name__
TypeName(v) ==
    CASE v.t = "null" -> "NoneType"
      [] v.t = "str"  -> "str"
      [] v.t = "int"  -> "int"
      [] v.t = "list" -> "list"
      [] v.t = "dict" -> "dict"
      [] OTHER        -> "object"

\* dict.get(key, default)
Get(m, key, default) == IF key \in DOMAIN m.d THEN m.d[key] ELSE default

\* hash(v) succeeds: lists and dicts are unhashable
Hashable(v) == v.t \notin {"list", "dict"}

HasQuote(s) == \E i \in 1..Len(s) : SubSeq(s, i, i) = "'"

\* repr(v): a string is quoted with ' unless it holds a ' itself
PyRepr(v) ==
    CASE v.t = "null" -> "None"
      [] v.t = "str"  -> IF HasQuote(v.s) THEN "\"" \o v.s \o "\"" ELSE "'" \o v.s \o "'"
      [] v.t = "int"  -> ToString(v.n)
      [] v.t = "list" -> "[...]"
      [] v.t = "dict" -> "{...}"
      [] OTHER        -> "..."

\* f"{v}", str(v): a string formats as itself, anything else as its repr
Format(v) == IF v.t = "str" THEN v.s ELSE PyRepr(v)

(***************************************************************************)
(* A Python dict built by a handler is a sequence of <<key, value>> pairs  *)
(* in insertion order.                                                     *)
(***************************************************************************)
HasKey(pairs, key) == \E i \in 1..Len(pairs) : pairs[i][1] = key

RECURSIVE ItemsStr(_)
ItemsStr(pairs) ==
    IF pairs = <<>> THEN ""
    ELSE "'" \o pairs[1][1] \o "': " \o PyRepr(pairs[1][2])
         \o (IF Len(pairs) > 1 THEN ", " ELSE "") \o ItemsStr(Tail(pairs))

\* f"{result}" of a dict
DictStr(pairs) == "{" \o ItemsStr(pairs) \o "}"

(***************************************************************************)
(* Exceptions.  An operator that models code which may raise returns       *)
(* either its value or Raise(type, message).                               *)
(***************************************************************************)
Raise(type, message) == [exc |-> type, message |-> message]
IsRaise(x) == "exc" \in DOMAIN x

(***************************************************************************)
(* Tool registry and tool descriptors.                                     *)
(***************************************************************************)
\* The keys of MCPHandler.tools, in insertion order.
tools ==
    << "list_all_movies", "search_movies", "search_by_genre", "search_by_director",
       "search_by_year_range", "get_all_genres", "get_all_directors",
       "get_recent_movies", "get_library_stats", "get_movie_details",
       "search_by_actor", "find_similar_by_metadata", "search_multi_criteria",
       "get_genre_combinations" >>

Range(s) == {s[i] : i \in 1..Len(s)}

\* A faulty variant of MovieToolDefinitions: a registered tool has no descriptor and
\* another is described twice.
MovieToolDefinitions_Short ==
    << "get_library_stats", "list_all_movies", "search_movies", "search_by_genre",
       "search_by_director", "search_by_year_range", "get_all_genres",
       "get_all_directors", "get_recent_movies", "get_movie_details",
       "search_by_actor", "find_similar_by_metadata", "search_multi_criteria",
       "search_multi_criteria" >>

\* The "name" of each descriptor MovieTools.get_tool_definitions() returns, in order.
MovieToolDefinitions ==
    << "get_library_stats", "list_all_movies", "search_movies", "search_by_genre",
       "search_by_director", "search_by_year_range", "get_all_genres",
       "get_all_directors", "get_recent_movies", "get_movie_details",
       "search_by_actor", "find_similar_by_metadata", "search_multi_criteria",
       "get_genre_combinations" >>

\* TVTools.get_tool_definitions()
TVToolDefinitions == <<>>

\* The required positional parameters of each tool method, in declaration order.
Required(tool) ==
    CASE tool = "search_movies"            -> <<"query">>
      [] tool = "search_by_genre"          -> <<"genre">>
      [] tool = "search_by_director"       -> <<"director">>
      [] tool = "search_by_year_range"     -> <<"start_year", "end_year">>
      [] tool = "get_movie_details"        -> <<"title">>
      [] tool = "search_by_actor"          -> <<"actor_name">>
      [] tool = "find_similar_by_metadata" -> <<"reference_movie">>
      [] OTHER                             -> <<>>

\* The parameters of each tool method that have a default, with that default.
Defaults(tool) ==
    CASE tool = "list_all_movies"          -> [limit |-> JInt(100), offset |-> JInt(0)]
      [] tool = "search_movies"            -> [limit |-> JInt(10)]
      [] tool = "search_by_genre"          -> [limit |-> JInt(20)]
      [] tool = "search_by_director"       -> [limit |-> JInt(20)]
      [] tool = "search_by_year_range"     -> [limit |-> JInt(30)]
      [] tool = "get_recent_movies"        -> [limit |-> JInt(10)]
      [] tool = "search_by_actor"          -> [limit |-> JInt(20)]
      [] tool = "find_similar_by_metadata" -> [similarity_factors |-> None]
      [] tool = "search_multi_criteria"    ->
             [genres |-> None, directors |-> None, actors |-> None,
              year_range |-> None, min_rating |-> None, limit |-> JInt(30)]
      [] tool = "get_genre_combinations"   -> [limit |-> JInt(20)]
      [] OTHER                             -> EmptyMap

Parameters(tool) == Range(Required(tool)) \cup DOMAIN Defaults(tool)

(***************************************************************************)
(* The catalog (the Plex server) as the handlers see it: what the access   *)
(* to the movie section and the query on it come to.                       *)
(*   status: "ok", or the failure of get_movie_library() / the query       *)
(*   found:  whether a title search returns an item                        *)
(*   scan:   the outcome of the second access find_similar_by_metadata     *)
(*           makes after its detail lookup                                 *)
(***************************************************************************)
CatalogStatus == {"ok", "unreachable", "no_section", "query_failed"}

\* found matters only when the lookup succeeds, scan only when it finds the title
Catalogs ==
    {c \in [status : CatalogStatus, found : BOOLEAN, scan : CatalogStatus] :
        /\ c.status # "ok" => ~c.found
        /\ ~c.found => c.scan = "ok"}

\* str(e) of the exception a failed catalog access raises
CatalogError(status) ==
    CASE status = "unreachable"  -> "Connection to Plex server failed"
      [] status = "no_section"   -> "No movie section found in Plex library"
      [] status = "query_failed" -> "Plex query failed"
      [] OTHER                   -> ""

\* A faulty variant of ErrorPayload: the failure is reported under another key.
ErrorPayload_Message(message) == << <<"message", JStr(message)>> >>

\* except Exception as e: return {"error": str(e)}
ErrorPayload(message) == << <<"error", JStr(message)>> >>

get_movie_details(title, catalog) ==
    IF catalog.status # "ok" THEN ErrorPayload(CatalogError(catalog.status))
    ELSE IF ~catalog.found THEN ErrorPayload("Movie '" \o Format(title) \o "' not found")
    ELSE << <<"movie_details", Data>> >>

find_similar_by_metadata(reference_movie, similarity_factors, catalog) ==
    LET ref_details == get_movie_details(reference_movie, catalog)
    IN  IF HasKey(ref_details, "error") THEN ref_details
        ELSE IF catalog.scan # "ok" THEN ErrorPayload(CatalogError(catalog.scan))
        ELSE << <<"reference_movie", reference_movie>>, <<"similar_movies", Data>>,
                <<"similarity_factors", IF similarity_factors = None THEN JList
                                        ELSE similarity_factors>>,
                <<"total_found", Data>> >>

\* The dict a handler returns when its catalog accesses succeed.
Success(tool, a) ==
    CASE tool = "list_all_movies" ->
             << <<"movies", Data>>, <<"total", Data>>, <<"offset", a.offset>>,
                <<"limit", a.limit>>, <<"has_more", Data>> >>
      [] tool = "search_movies" -> << <<"movies", Data>>, <<"total", Data>> >>
      [] tool = "search_by_genre" ->
             << <<"movies", Data>>, <<"genre", a.genre>>, <<"total", Data>> >>
      [] tool = "search_by_director" ->
             << <<"movies", Data>>, <<"director", a.director>>, <<"total", Data>> >>
      [] tool = "search_by_year_range" ->
             << <<"movies", Data>>, <<"year_range", Data>>, <<"total", Data>> >>
      [] tool = "get_all_genres" -> << <<"genres", Data>> >>
      [] tool = "get_all_directors" -> << <<"directors", Data>> >>
      [] tool = "get_recent_movies" -> << <<"recent_movies", Data>> >>
      [] tool = "get_library_stats" ->
             << <<"total_movies", Data>>, <<"decades", Data>>, <<"top_genres", Data>>,
                <<"top_directors", Data>> >>
      [] tool = "search_by_actor" ->
             << <<"movies", Data>>, <<"actor", a.actor_name>>, <<"total", Data>> >>
      [] tool = "search_multi_criteria" ->
             << <<"movies", Data>>, <<"search_criteria", Data>>, <<"total", Data>> >>
      [] tool = "get_genre_combinations" -> << <<"genre_combinations", Data>> >>
      [] OTHER -> <<>>

\* The body of tool method `tool` run on bound arguments a: every handler wraps its
\* catalog accesses in try/except and returns {"error": str(e)} on failure.
ToolMethod(tool, a, catalog) ==
    IF tool = "get_movie_details" THEN get_movie_details(a.title, catalog)
    ELSE IF tool = "find_similar_by_metadata"
         THEN find_similar_by_metadata(a.reference_movie, a.similarity_factors, catalog)
    ELSE IF catalog.status # "ok" THEN ErrorPayload(CatalogError(catalog.status))
    ELSE Success(tool, a)

\* A faulty variant of Bind: a parameter that is not given is bound to None, required
\* or not, and the call goes ahead.
Bind_FillsNone(tool, arguments) ==
    IF arguments.t # "dict"
    THEN Raise("TypeError", "argument after ** must be a mapping")
    ELSE [p \in Parameters(tool) \cup DOMAIN arguments.d |->
             IF p \in DOMAIN arguments.d THEN arguments.d[p] ELSE None]

\* tool_method(**arguments): Python's binding of the keyword arguments to the
\* method's parameters, which raises TypeError before the method body runs.
Bind(tool, arguments) ==
    IF arguments.t # "dict"
    THEN Raise("TypeError", "tools.movie_tools.MovieTools." \o tool
                    \o "() argument after ** must be a mapping, not " \o TypeName(arguments))
    ELSE LET given == DOMAIN arguments.d
             unexpected == given \ Parameters(tool)
             IsMissing(p) == p \notin given
             missing == SelectSeq(Required(tool), IsMissing)
         IN  IF unexpected # {}
             THEN Raise("TypeError", "MovieTools." \o tool
                    \o "() got an unexpected keyword argument '"
                    \o (CHOOSE k \in unexpected : TRUE) \o "'")
             ELSE IF Len(missing) = 1
             THEN Raise("TypeError", "MovieTools." \o tool
                    \o "() missing 1 required positional argument: '" \o missing[1] \o "'")
             ELSE IF Len(missing) > 1
             THEN Raise("TypeError", "MovieTools." \o tool \o "() missing "
                    \o ToString(Len(missing)) \o " required positional arguments: '"
                    \o missing[1] \o "' and '" \o missing[2] \o "'")
             ELSE [p \in Parameters(tool) |->
                      IF p \in given THEN arguments.d[p] ELSE Defaults(tool)[p]]

(***************************************************************************)
(* The RPC router: MCPHandler.                                             *)
(***************************************************************************)
\* A faulty variant of JsonRpcError: the error response carries a null result too.
JsonRpcError_WithResult(msg_id, code, message) ==
    [jsonrpc |-> "2.0", id |-> msg_id, result |-> None,
     error |-> [code |-> code, message |-> message]]

JsonRpcError(msg_id, code, message) ==
    [jsonrpc |-> "2.0", id |-> msg_id, error |-> [code |-> code, message |-> message]]

\* A faulty variant of _handle_initialize: the request's id is not copied.
_handle_initialize_NoId(msg_id) ==
    [jsonrpc |-> "2.0", id |-> None,
     result |-> [protocolVersion |-> "2024-11-05",
                 capabilities |-> [tools |-> EmptyMap],
                 serverInfo |-> [name |-> "plex-mcp-server", version |-> "1.0.0"]]]

_handle_initialize(msg_id) ==
    [jsonrpc |-> "2.0", id |-> msg_id,
     result |-> [protocolVersion |-> "2024-11-05",
                 capabilities |-> [tools |-> EmptyMap],
                 serverInfo |-> [name |-> "plex-mcp-server", version |-> "1.0.0"]]]

\* A faulty variant of _handle_tools_list: the names are read off the registry.
_handle_tools_list_FromRegistry(msg_id) ==
    [jsonrpc |-> "2.0", id |-> msg_id, result |-> [tools |-> tools]]

_handle_tools_list(msg_id) ==
    [jsonrpc |-> "2.0", id |-> msg_id,
     result |-> [tools |-> MovieToolDefinitions \o TVToolDefinitions]]

\* _handle_tools_call's except clause
_handle_tools_call_except(msg_id, e) == JsonRpcError(msg_id, -32603, e.message)

_handle_tools_call(msg_id, params, catalog) ==
    IF params.t # "dict"
    THEN Raise("AttributeError", "'" \o TypeName(params) \o "' object has no attribute 'get'")
    ELSE
    LET tool_name == Get(params, "name", None)
        arguments == Get(params, "arguments", EmptyDict)
    IN  IF ~Hashable(tool_name)
        THEN Raise("TypeError", "unhashable type: '" \o TypeName(tool_name) \o "'")
        ELSE IF tool_name \notin {JStr(n) : n \in Range(tools)}
        THEN JsonRpcError(msg_id, -32601, "Unknown tool: " \o Format(tool_name))
        ELSE LET bound == Bind(tool_name.s, arguments)
             IN  IF IsRaise(bound)
                 THEN _handle_tools_call_except(msg_id, bound)
                 ELSE [jsonrpc |-> "2.0", id |-> msg_id,
                       result |-> [content |->
                           << [type |-> "text",
                               text |-> DictStr(ToolMethod(tool_name.s, bound, catalog))] >>]]

\* A faulty variant of handle_message_except: the exception's message is not
\* passed on.
handle_message_except_Generic(message, e) ==
    [jsonrpc |-> "2.0", id |-> Get(message, "id", None),
     error |-> [code |-> -32603, message |-> "Internal error"]]

\* handle_message's except clause
handle_message_except(message, e) ==
    JsonRpcError(Get(message, "id", None), -32603, e.message)

\* The result is a response, or Raise(..) when the exception leaves handle_message:
\* for a message that is no dict, message.get raises again inside the except clause.
handle_message(message, catalog) ==
    IF message.t # "dict"
    THEN Raise("AttributeError", "'" \o TypeName(message) \o "' object has no attribute 'get'")
    ELSE
    LET method == Get(message, "method", None)
        params == Get(message, "params", EmptyDict)
        msg_id == Get(message, "id", None)
        r == IF method = JStr("initialize") THEN _handle_initialize(msg_id)
             ELSE IF method = JStr("tools/list") THEN _handle_tools_list(msg_id)
             ELSE IF method = JStr("tools/call") THEN _handle_tools_call(msg_id, params, catalog)
             ELSE JsonRpcError(msg_id, -32601, "Unknown method: " \o Format(method))
    IN  IF IsRaise(r)
        THEN handle_message_except(message, r)
        ELSE r

\* The call tool_method(**arguments) that dispatching `message` makes and whose body
\* runs (so that the handler goes to the catalog), or None when it makes none.
InvokedCall(message) ==
    IF message.t # "dict" \/ Get(message, "method", None) # JStr("tools/call") THEN None
    ELSE LET params == Get(message, "params", EmptyDict)
         IN  IF params.t # "dict" THEN None
             ELSE LET tool_name == Get(params, "name", None)
                  IN  IF tool_name \notin {JStr(n) : n \in Range(tools)} THEN None
                      ELSE LET bound == Bind(tool_name.s,
                                             Get(params, "arguments", EmptyDict))
                           IN  IF IsRaise(bound) THEN None
                               ELSE [tool |-> tool_name.s, args |-> bound]

(***************************************************************************)
(* The HTTP endpoints of main.py.  A request body is either not JSON       *)
(* (request.json() raises) or a JSON value.                                *)
(***************************************************************************)
\* A faulty variant of ParseErrorResponse: the internal error code is used.
ParseErrorResponse_Internal ==
    [jsonrpc |-> "2.0", id |-> None, error |-> [code |-> -32603, message |-> "Parse error"]]

ParseErrorResponse == JsonRpcError(None, -32700, "Parse error")

\* A faulty variant of Broadcast: the loop stops after the first client.
Broadcast_FirstOnly(queues, response) ==
    [c \in DOMAIN queues |->
        IF c = CHOOSE k \in DOMAIN queues : \A j \in DOMAIN queues : k <= j
        THEN Append(queues[c], response) ELSE queues[c]]

\* for client_id in list(message_queues.keys()): await message_queues[client_id].put(response)
Broadcast(queues, response) ==
    [c \in DOMAIN queues |-> Append(queues[c], response)]

\* A faulty variant of sse_post_endpoint: the loop goes over the client ids the
\* request found on arrival, and puts the response on a new queue for one that is gone.
sse_post_endpoint_Stale(body, catalog, queues, clients) ==
    IF ~body.ok THEN [response |-> ParseErrorResponse, queues |-> queues]
    ELSE LET response == handle_message(body.json, catalog)
         IN  IF IsRaise(response)
             THEN [response |-> ParseErrorResponse, queues |-> queues]
             ELSE [response |-> response,
                   queues |-> [c \in DOMAIN queues \cup clients |->
                                  Append(IF c \in DOMAIN queues THEN queues[c] ELSE <<>>,
                                         response)]]

\* POST /sse: the response returned and the queues after the broadcast.  clients are
\* the ids that had a queue when the request arrived; the loop reads the keys of
\* message_queues after handle_message and does not use them.
sse_post_endpoint(body, catalog, queues, clients) ==
    IF ~body.ok THEN [response |-> ParseErrorResponse, queues |-> queues]
    ELSE LET response == handle_message(body.json, catalog)
         IN  IF IsRaise(response)
             THEN [response |-> ParseErrorResponse, queues |-> queues]
             ELSE [response |-> response, queues |-> Broadcast(queues, response)]

\* POST /messages: the response returned
handle_messages(body, catalog) ==
    IF ~body.ok THEN ParseErrorResponse
    ELSE LET response == handle_message(body.json, catalog)
         IN  IF IsRaise(response) THEN ParseErrorResponse ELSE response

(***************************************************************************)
(* Bounds and the inputs the environment may send.                         *)
(***************************************************************************)
\* seconds a stream waits on its queue before it emits a keepalive
KeepaliveTimeout == 30
\* client ids (uuid4 values) in use at the same time
MaxClients == 2
\* responses a queue holds before further POSTs are held back
MaxQueue == 2
\* clock ticks per keepalive timeout
TicksPerTimeout == 2
\* clock ticks a blocked event loop may run past a keepalive deadline
MaxOverrun == 1
\* frames and queued responses the open streams hold together before further streams,
\* keepalives and POSTs are held back
MaxFrames == 4

ClientIds == 1..MaxClients
TimeStep == KeepaliveTimeout \div TicksPerTimeout

Absent == [t |-> "absent"]

\* a dict of the keys whose value is not Absent
Opt(key, value) == IF value = Absent THEN EmptyMap ELSE (key :> value)

ArgValue(p) ==
    CASE p \in {"limit", "offset", "start_year", "end_year", "min_rating"} -> JInt(5)
      [] p \in {"genres", "directors", "actors", "year_range", "similarity_factors"} -> JList
      [] OTHER -> JStr("Zed")

ArgDict(keys) == JDict([p \in keys |-> ArgValue(p)])

\* params.arguments of a call to a registered tool: every subset of its parameters,
\* a keyword it does not declare, values that are no mapping, and no arguments at all
ArgumentChoices(tool) ==
    {ArgDict(keys) : keys \in SUBSET Parameters(tool)}
        \cup {ArgDict(Range(Required(tool)) \cup {"bogus"}), Absent, None, JList}

ParamChoices ==
    {Absent, None, JList, EmptyDict}
        \cup {JDict(Opt("name", name) @@ Opt("arguments", arguments)) :
                 name \in {None, JInt(5), JList, EmptyDict, JStr("no_such_tool")},
                 arguments \in {Absent, EmptyDict}}
        \cup UNION {{JDict(("name" :> JStr(tool)) @@ Opt("arguments", arguments)) :
                        arguments \in ArgumentChoices(tool)} : tool \in Range(tools)}

IdChoices == {Absent, None, JInt(1), JStr("a")}

MethodChoices ==
    {Absent, JInt(5), JStr("initialize"), JStr("tools/list"), JStr("tools/call"),
     JStr("resources/list")}

Request(id, method, params) ==
    JDict(("jsonrpc" :> JStr("2.0")) @@ Opt("id", id) @@ Opt("method", method)
              @@ Opt("params", params))

NoBody == [ok |-> FALSE, json |-> None]
Json(v) == [ok |-> TRUE, json |-> v]

\* Every request body of the router specification.
AllBodies ==
    {NoBody} \cup {Json(v) : v \in {None, JList, JStr("hello"), JInt(7)}}
        \cup {Json(Request(id, method, params)) :
                 id \in IdChoices, method \in MethodChoices \ {JStr("tools/call")},
                 params \in {Absent, EmptyDict}}
        \cup {Json(Request(id, JStr("tools/call"), params)) :
                 id \in IdChoices, params \in ParamChoices}

\* The request bodies of the connection specification.
StreamBodies ==
    {NoBody, Json(JList),
     Json(Request(JInt(1), JStr("initialize"), Absent)),
     Json(Request(JStr("a"), JStr("tools/call"),
                  JDict(("name" :> JStr("get_movie_details"))
                            @@ ("arguments" :> ArgDict({"title"})))))}

VARIABLES
    message_queues,   \* client id -> FIFO of responses waiting for delivery on the stream
    connections,      \* the client ids that have a connection record
    stream,           \* client id -> where that client's event_stream generator stands
    idle,             \* client id -> time since the stream's current wait_for began
    post,             \* the POST request being handled
    returned,         \* the POST answered last, request and response, until the next arrives
    last_call,        \* the tool method the dispatch of that POST invoked, with bound arguments
    frames,           \* client id -> the frames its stream has yielded so far, in order
    enqueued,         \* client id -> the responses put on its queue so far, in order
    library,          \* the movie section of the Plex server: its items, in section.all() order
    invocation,       \* the tool method run on the library last, with its arguments
    outcome           \* the dict that method returned

toolvars == <<library, invocation, outcome>>

vars == <<message_queues, connections, stream, idle, post, returned, last_call,
          frames, enqueued, library, invocation, outcome>>

\* no POST has been answered since the last one arrived
\* gone: the clients whose queue was removed while the request was in flight
NoExchange ==
    [endpoint |-> "", body |-> NoBody, catalog |-> None, response |-> None, gone |-> {}]

\* clients: the client ids that had a queue when the request arrived
IdlePost == [pc |-> "idle", endpoint |-> "", body |-> NoBody, clients |-> {}]

\* the server after start-up: no connection, no request
InitServer ==
    /\ message_queues = <<>>
    /\ connections = {}
    /\ stream = [c \in ClientIds |-> "none"]
    /\ idle = [c \in ClientIds |-> 0]
    /\ post = IdlePost
    /\ returned = NoExchange
    /\ last_call = None
    /\ frames = [c \in ClientIds |-> <<>>]
    /\ enqueued = [c \in ClientIds |-> <<>>]

\* The router and connection specifications leave the content of the library open:
\* what the handlers get from it is `Data`.
NoInvocation == [tool |-> ""]

Init ==
    /\ InitServer
    /\ library = <<>>
    /\ invocation = NoInvocation
    /\ outcome = None

\* The event loop runs one coroutine at a time: while handle_message, which is
\* synchronous, waits for the catalog, no other coroutine runs.
Blocked == post.pc = "blocked"

Waiting(c) == stream[c] = "waiting"

\* the stream of client c has been opened and not closed
Open(c) == stream[c] \in {"created", "waiting"}

\* json.dumps(v): the text of v; two values have the same text only if they are equal
json_dumps(v) == [json |-> v]

\* the dicts event_stream yields
InitFrame ==
    [data |-> json_dumps([jsonrpc |-> "2.0", method |-> "notifications/initialized",
                          params |-> EmptyMap])]
MessageFrame(message) == [data |-> json_dumps(message)]
KeepaliveFrame == [data |-> [text |-> "keepalive"]]

\* The frames the open streams have yielded and the responses on their queues, with
\* the first frame of a stream that has not started yet.
RECURSIVE Held(_)
Held(ids) ==
    IF ids = {} THEN 0
    ELSE LET c == CHOOSE k \in ids : TRUE
         IN  (IF stream[c] = "created" THEN 1 ELSE Len(frames[c]))
                + (IF c \in DOMAIN message_queues THEN Len(message_queues[c]) ELSE 0)
                + Held(ids \ {c})

FramesHeld == Held(ClientIds)

(***************************************************************************)
(* GET /sse: sse_endpoint and its event_stream generator.                  *)
(***************************************************************************)
\* uuid4() differs from every id in use
FreshIds ==
    {c \in ClientIds : c \notin DOMAIN message_queues /\ c \notin connections
                          /\ ~Open(c)}

sse_endpoint ==
    /\ ~Blocked
    /\ FramesHeld < MaxFrames
    /\ \E client_id \in FreshIds :
          /\ message_queues' = (client_id :> <<>>) @@ message_queues
          /\ connections' = connections \cup {client_id}
          /\ stream' = [stream EXCEPT ![client_id] = "created"]
          /\ frames' = [frames EXCEPT ![client_id] = <<>>]
          /\ enqueued' = [enqueued EXCEPT ![client_id] = <<>>]
    /\ UNCHANGED <<toolvars, idle, post, returned, last_call>>

\* A faulty variant of StreamStart: the generator enters its loop without the first
\* yield.
StreamStart_NoFrame(c) ==
    /\ ~Blocked
    /\ stream[c] = "created"
    /\ stream' = [stream EXCEPT ![c] = "waiting"]
    /\ idle' = [idle EXCEPT ![c] = 0]
    /\ UNCHANGED <<toolvars, message_queues, connections, post, returned, last_call, frames,
                   enqueued>>

\* the generator starts: it yields the notifications/initialized frame and enters the loop
StreamStart(c) ==
    /\ ~Blocked
    /\ stream[c] = "created"
    /\ stream' = [stream EXCEPT ![c] = "waiting"]
    /\ idle' = [idle EXCEPT ![c] = 0]
    /\ frames' = [frames EXCEPT ![c] = Append(@, InitFrame)]
    /\ UNCHANGED <<toolvars, message_queues, connections, post, returned, last_call, enqueued>>

\* A faulty variant of StreamDeliver: the queue hands out its newest message first.
StreamDeliver_Lifo(c) ==
    /\ ~Blocked
    /\ Waiting(c)
    /\ c \in DOMAIN message_queues
    /\ message_queues[c] # <<>>
    /\ message_queues' = [message_queues EXCEPT ![c] = SubSeq(@, 1, Len(@) - 1)]
    /\ idle' = [idle EXCEPT ![c] = 0]
    /\ frames' = [frames EXCEPT
                     ![c] = Append(@, MessageFrame(message_queues[c][Len(message_queues[c])]))]
    /\ UNCHANGED <<toolvars, connections, stream, post, returned, last_call, enqueued>>

\* message_queues[client_id].get() returns: the message is yielded as a frame
StreamDeliver(c) ==
    /\ ~Blocked
    /\ Waiting(c)
    /\ c \in DOMAIN message_queues
    /\ message_queues[c] # <<>>
    /\ message_queues' = [message_queues EXCEPT ![c] = Tail(@)]
    /\ idle' = [idle EXCEPT ![c] = 0]
    /\ frames' = [frames EXCEPT ![c] = Append(@, MessageFrame(Head(message_queues[c])))]
    /\ UNCHANGED <<toolvars, connections, stream, post, returned, last_call, enqueued>>

\* asyncio.TimeoutError: the keepalive frame is yielded
StreamKeepalive(c) ==
    /\ ~Blocked
    /\ Waiting(c)
    /\ idle[c] >= KeepaliveTimeout
    /\ FramesHeld < MaxFrames
    /\ idle' = [idle EXCEPT ![c] = 0]
    /\ frames' = [frames EXCEPT ![c] = Append(@, KeepaliveFrame)]
    /\ UNCHANGED <<toolvars, message_queues, connections, stream, post, returned, last_call, enqueued>>

\* A faulty variant of StreamClose: the finally clause deletes the queue and leaves
\* the connection record.
StreamClose_KeepsConnection(c) ==
    /\ ~Blocked
    /\ Waiting(c)
    /\ message_queues' = [k \in DOMAIN message_queues \ {c} |-> message_queues[k]]
    /\ stream' = [stream EXCEPT ![c] = "closed"]
    /\ idle' = [idle EXCEPT ![c] = 0]
    /\ frames' = [frames EXCEPT ![c] = <<>>]
    /\ enqueued' = [enqueued EXCEPT ![c] = <<>>]
    /\ UNCHANGED <<toolvars, connections, post, returned, last_call>>

\* the client disconnects while the generator is suspended in its loop: it is
\* cancelled and its finally clause runs
StreamClose(c) ==
    /\ ~Blocked
    /\ Waiting(c)
    /\ message_queues' = [k \in DOMAIN message_queues \ {c} |-> message_queues[k]]
    /\ connections' = connections \ {c}
    /\ stream' = [stream EXCEPT ![c] = "closed"]
    /\ idle' = [idle EXCEPT ![c] = 0]
    /\ frames' = [frames EXCEPT ![c] = <<>>]
    /\ enqueued' = [enqueued EXCEPT ![c] = <<>>]
    /\ UNCHANGED <<toolvars, post, returned, last_call>>

\* Time passes.  A free event loop runs a due timeout or a ready delivery before
\* the clock moves on; a blocked one does not.
Tick ==
    /\ \E c \in ClientIds : Waiting(c)
    /\ \A c \in ClientIds :
          Waiting(c) => idle[c] < KeepaliveTimeout + MaxOverrun * TimeStep
    /\ ~Blocked =>
          \A c \in ClientIds :
             Waiting(c) => idle[c] < KeepaliveTimeout /\ message_queues[c] = <<>>
    /\ idle' = [c \in ClientIds |-> IF Waiting(c) THEN idle[c] + TimeStep ELSE idle[c]]
    /\ UNCHANGED <<toolvars, message_queues, connections, stream, post, returned, last_call,
                   frames, enqueued>>

(***************************************************************************)
(* POST /sse and POST /messages.                                           *)
(***************************************************************************)
\* a POST arrives and its handler awaits request.json()
PostArrive(endpoint) ==
    /\ post.pc = "idle"
    /\ \A c \in DOMAIN message_queues : Len(message_queues[c]) < MaxQueue
    /\ FramesHeld + Cardinality(DOMAIN message_queues) <= MaxFrames
    /\ post' = [pc |-> "reading", endpoint |-> endpoint, body |-> NoBody,
                clients |-> DOMAIN message_queues]
    /\ returned' = NoExchange
    /\ last_call' = None
    /\ UNCHANGED <<toolvars, message_queues, connections, stream, idle, frames, enqueued>>

\* the handler runs to its return statement
Finish(endpoint, body, catalog, consulted) ==
    LET out == IF endpoint = "/sse"
               THEN sse_post_endpoint(body, catalog, message_queues, post.clients)
               ELSE [response |-> handle_messages(body, catalog), queues |-> message_queues]
    IN  /\ returned' = [endpoint |-> endpoint, body |-> body,
                        catalog |-> IF consulted THEN catalog ELSE None,
                        response |-> out.response,
                        gone |-> post.clients \ DOMAIN message_queues]
        /\ message_queues' = out.queues
        /\ enqueued' = [c \in ClientIds |->
                           IF c \in DOMAIN out.queues
                              /\ Len(out.queues[c]) >
                                    (IF c \in DOMAIN message_queues
                                     THEN Len(message_queues[c]) ELSE 0)
                           THEN Append(enqueued[c], out.response)
                           ELSE enqueued[c]]
        /\ post' = IdlePost

AnyCatalog == [status |-> "ok", found |-> TRUE, scan |-> "ok"]

\* the body is read and the message handled, up to the tool method's catalog access
PostHandle(bodies) ==
    /\ post.pc = "reading"
    /\ \E body \in bodies :
          LET call == IF body.ok THEN InvokedCall(body.json) ELSE None
          IN  /\ last_call' = call
              /\ IF call # None
                 THEN /\ post' = [post EXCEPT !.pc = "blocked", !.body = body]
                      /\ UNCHANGED <<message_queues, returned, enqueued>>
                 ELSE Finish(post.endpoint, body, AnyCatalog, FALSE)
    /\ UNCHANGED <<toolvars, connections, stream, idle, frames>>

\* the catalog answers; the tool method returns, the response is built and sent
CatalogReply(catalogs) ==
    /\ post.pc = "blocked"
    /\ \E catalog \in catalogs : Finish(post.endpoint, post.body, catalog, TRUE)
    /\ UNCHANGED <<toolvars, connections, stream, idle, last_call, frames>>

Next ==
    \/ sse_endpoint
    \/ \E c \in ClientIds : StreamStart(c)
    \/ \E c \in ClientIds : StreamDeliver(c)
    \/ \E c \in ClientIds : StreamKeepalive(c)
    \/ \E c \in ClientIds : StreamClose(c)
    \/ Tick
    \/ \E endpoint \in {"/sse", "/messages"} : PostArrive(endpoint)
    \/ PostHandle(StreamBodies)
    \/ CatalogReply({AnyCatalog})

\* The connection manager with the POST endpoints, over a few request bodies and a
\* catalog that answers.
Spec == Init /\ [][Next]_vars

NextRouter ==
    \/ \E endpoint \in {"/sse", "/messages"} : PostArrive(endpoint)
    \/ PostHandle(AllBodies)
    \/ CatalogReply(Catalogs)

\* The POST endpoints and the router over every request body, with no stream open.
SpecRouter == Init /\ [][NextRouter]_vars

\* The requests of the stream specification: two that handle_message answers without
\* going to the catalog, with different responses.
FrameBodies ==
    {Json(Request(JInt(1), JStr("initialize"), Absent)),
     Json(Request(JStr("a"), JStr("tools/list"), Absent))}

NextStream ==
    \/ sse_endpoint
    \/ \E c \in ClientIds : StreamStart(c)
    \/ \E c \in ClientIds : StreamDeliver(c)
    \/ \E c \in ClientIds : StreamKeepalive(c)
    \/ \E c \in ClientIds : StreamClose(c)
    \/ Tick
    \/ PostArrive("/sse")
    \/ PostHandle(FrameBodies)

\* The streams and what they yield, with POSTs to /sse that are answered at once.
SpecStream == Init /\ [][NextStream]_vars

\* The event loop runs every coroutine that is ready: a generator that was created is
\* started, and a get() on a queue that holds a message returns.
SpecStreamFair ==
    /\ SpecStream
    /\ \A c \in ClientIds : WF_vars(StreamStart(c)) /\ WF_vars(StreamDeliver(c))

(***************************************************************************)
(* The movie section and the tool methods that compute on its items        *)
(* (tools/movie_tools.py).  A movie is what the handlers read of a plexapi *)
(* Movie: title, year (None or a number), rating, the tags of its genres,  *)
(* directors and roles, and its summary.                                   *)
(***************************************************************************)
\* movies a library of the model holds, when every library up to that size is tried
MaxMovies == 3

Movie(title, year, genres, directors, roles) ==
    [title |-> title, year |-> year, rating |-> None, genres |-> genres,
     directors |-> directors, roles |-> roles, summary |-> ""]

\* movie.rating set
Rated(movie, rating) == [movie EXCEPT !.rating = JInt(rating)]

Heat ==
    Rated(Movie("Heat", JInt(1995), <<"Crime", "Drama">>, <<"Mann">>, <<"Pacino", "De Niro">>),
          8)
Ronin == Rated(Movie("Ronin", JInt(1998), <<"Crime">>, <<"Frankenheimer">>, <<"De Niro">>), 7)
Collateral == Movie("Collateral", JInt(2004), <<"Crime">>, <<"Mann">>, <<>>)
PulpFiction ==
    Movie("Pulp Fiction", JInt(1994), <<"Crime", "Drama">>, <<"Tarantino">>, <<"Travolta">>)
Untitled == Movie("Untitled", None, <<>>, <<>>, <<>>)
\* a movie with more roles than get_movie_details reports
Ensemble ==
    Movie("Ensemble", JInt(2011), <<"Comedy">>, <<"Marshall">>,
          <<"A1", "A2", "A3", "A4", "A5", "A6", "A7", "A8", "A9", "A10", "Travolta">>)
\* a movie whose title holds the title of another
HeatTwo == Movie("Heat 2", JInt(2023), <<"Crime">>, <<"Mann">>, <<>>)

Movies == {Heat, Ronin, Collateral, PulpFiction, Untitled, Ensemble, HeatTwo}

\* a library with more movies like Heat than find_similar_by_metadata returns
Shelf == [i \in 1..24 |-> IF i = 3 THEN Heat ELSE IF i % 4 = 0 THEN PulpFiction
                           ELSE IF i % 2 = 0 THEN Collateral ELSE Ronin]

\* every library of at most MaxMovies movies, and the shelf
Libraries == UNION {[1..n -> Movies] : n \in 0..MaxMovies} \cup {Shelf}

Min(a, b) == IF a < b THEN a ELSE b
Max(a, b) == IF a > b THEN a ELSE b

\* a list argument of a tool
ListOf(items) == [t |-> "list", items |-> items]

\* bool(v): None, the number 0 and the empty list are false
Truthy(v) ==
    /\ v # None
    /\ ~(v.t = "int" /\ v.n = 0)
    /\ ~(v.t = "list" /\ v = ListOf(<<>>))

\* seq[start:stop] of Python: a negative index counts from the end, and both are
\* clamped to the sequence
PySlice(seq, start, stop) ==
    LET n == Len(seq)
        Clamp(i) == IF i < 0 THEN Max(i + n, 0) ELSE Min(i, n)
    IN  IF Clamp(start) < Clamp(stop) THEN SubSeq(seq, Clamp(start) + 1, Clamp(stop))
        ELSE <<>>

\* max_length of _truncate_summary
SummaryMaxLength == 150

_truncate_summary(summary) ==
    IF summary = "" THEN ""
    ELSE IF Len(summary) > SummaryMaxLength
    THEN SubSeq(summary, 1, SummaryMaxLength) \o "..."
    ELSE summary

\* A faulty variant of list_all_movies: the slice stops at limit, not at offset + limit.
list_all_movies_StopAtLimit(limit, offset) ==
    LET all_movies == library
        total == Len(all_movies)
        movies == PySlice(all_movies, offset, limit)
    IN  [movies |-> [i \in 1..Len(movies) |->
                        [title |-> movies[i].title, year |-> movies[i].year,
                         rating |-> movies[i].rating, genres |-> movies[i].genres,
                         directors |-> movies[i].directors,
                         summary |-> _truncate_summary(movies[i].summary)]],
         total |-> total, offset |-> offset, limit |-> limit,
         has_more |-> offset + limit < total]

list_all_movies(limit, offset) ==
    LET all_movies == library
        total == Len(all_movies)
        movies == PySlice(all_movies, offset, offset + limit)
    IN  [movies |-> [i \in 1..Len(movies) |->
                        [title |-> movies[i].title, year |-> movies[i].year,
                         rating |-> movies[i].rating, genres |-> movies[i].genres,
                         directors |-> movies[i].directors,
                         summary |-> _truncate_summary(movies[i].summary)]],
         total |-> total, offset |-> offset, limit |-> limit,
         has_more |-> offset + limit < total]

RECURSIVE YearRangeScan(_, _, _, _, _)
\* the loop of search_by_year_range over the movies left to scan
YearRangeScan(movies, start_year, end_year, limit, filtered) ==
    IF movies = <<>> THEN filtered
    ELSE LET movie == Head(movies)
             year == movie.year
         IN  IF Truthy(year) /\ start_year <= year.n /\ year.n <= end_year
             THEN LET appended ==
                          Append(filtered,
                                 [title |-> movie.title, year |-> year,
                                  rating |-> movie.rating, genres |-> movie.genres,
                                  directors |-> movie.directors])
                  IN  IF Len(appended) >= limit THEN appended
                      ELSE YearRangeScan(Tail(movies), start_year, end_year, limit, appended)
             ELSE YearRangeScan(Tail(movies), start_year, end_year, limit, filtered)

search_by_year_range(start_year, end_year, limit) ==
    LET all_movies == library
        filtered == YearRangeScan(all_movies, start_year, end_year, limit, <<>>)
    IN  [movies |-> filtered,
         year_range |-> ToString(start_year) \o "-" \o ToString(end_year),
         total |-> Len(filtered)]

RECURSIVE Incr(_, _)
\* d[key] = d.get(key, 0) + 1 on a dict kept as <<key, count>> pairs in insertion order
Incr(d, key) ==
    IF d = <<>> THEN << <<key, 1>> >>
    ELSE IF d[1][1] = key THEN << <<key, d[1][2] + 1>> >> \o Tail(d)
    ELSE <<d[1]>> \o Incr(Tail(d), key)

RECURSIVE IncrAll(_, _)
\* Incr for each of the tags, in order
IncrAll(d, tags) == IF tags = <<>> THEN d ELSE IncrAll(Incr(d, Head(tags)), Tail(tags))

RECURSIVE InsertDesc(_, _)
\* the keyed item x put into sorted, after every element whose key is not smaller
InsertDesc(sorted, x) ==
    IF sorted = <<>> THEN <<x>>
    ELSE IF sorted[1].key >= x.key THEN <<sorted[1]>> \o InsertDesc(Tail(sorted), x)
    ELSE <<x>> \o sorted

RECURSIVE SortKeyed(_, _)
SortKeyed(keyed, sorted) ==
    IF keyed = <<>> THEN sorted
    ELSE SortKeyed(Tail(keyed), InsertDesc(sorted, Head(keyed)))

\* sorted(items, key=KeyOf, reverse=True): descending by key, and stable
SortDesc(items, KeyOf(_)) ==
    LET keyed == [i \in 1..Len(items) |-> [key |-> KeyOf(items[i]), item |-> items[i]]]
        sorted == SortKeyed(keyed, <<>>)
    IN  [i \in 1..Len(sorted) |-> sorted[i].item]

\* items[:n]
Top(items, n) == SubSeq(items, 1, Min(n, Len(items)))

\* the [:10] of the top genres and directors
TopCount == 10

\* A faulty variant of DecadeOf: the year is divided and not multiplied back.
DecadeOf_Tenth(year) == year \div 10

\* decade = (year // 10) * 10
DecadeOf(year) == (year \div 10) * 10

RECURSIVE StatsScan(_, _)
\* the loop of get_library_stats: counts is the three dicts so far
StatsScan(movies, counts) ==
    IF movies = <<>> THEN counts
    ELSE LET movie == Head(movies)
             year == movie.year
         IN  StatsScan(Tail(movies),
                 [decades |-> IF Truthy(year)
                              THEN Incr(counts.decades, ToString(DecadeOf(year.n)) \o "s")
                              ELSE counts.decades,
                  genres |-> IncrAll(counts.genres, movie.genres),
                  directors |-> IncrAll(counts.directors, movie.directors)])

get_library_stats ==
    LET all_movies == library
        counts == StatsScan(all_movies, [decades |-> <<>>, genres |-> <<>>, directors |-> <<>>])
        Count(item) == item[2]
    IN  [total_movies |-> Len(all_movies),
         decades |-> counts.decades,
         top_genres |-> Top(SortDesc(counts.genres, Count), TopCount),
         top_directors |-> Top(SortDesc(counts.directors, Count), TopCount)]

LowerChar(ch) ==
    CASE ch = "A" -> "a" [] ch = "B" -> "b" [] ch = "C" -> "c" [] ch = "D" -> "d"
      [] ch = "E" -> "e" [] ch = "F" -> "f" [] ch = "G" -> "g" [] ch = "H" -> "h"
      [] ch = "I" -> "i" [] ch = "J" -> "j" [] ch = "K" -> "k" [] ch = "L" -> "l"
      [] ch = "M" -> "m" [] ch = "N" -> "n" [] ch = "O" -> "o" [] ch = "P" -> "p"
      [] ch = "Q" -> "q" [] ch = "R" -> "r" [] ch = "S" -> "s" [] ch = "T" -> "t"
      [] ch = "U" -> "u" [] ch = "V" -> "v" [] ch = "W" -> "w" [] ch = "X" -> "x"
      [] ch = "Y" -> "y" [] ch = "Z" -> "z" [] OTHER -> ch

RECURSIVE Lower(_)
\* str.lower()
Lower(str) ==
    IF str = "" THEN ""
    ELSE LowerChar(SubSeq(str, 1, 1)) \o Lower(SubSeq(str, 2, Len(str)))

\* part in whole, of strings
Contains(whole, part) ==
    \E i \in 0..(Len(whole) - Len(part)) : SubSeq(whole, i + 1, i + Len(part)) = part

\* section.search(title=title): the items the Plex server matches with the title, a
\* match on part of the title whatever the case.  Which of them comes first is the
\* server's choice.
TitleMatches(title) ==
    {i \in 1..Len(library) : Contains(Lower(library[i].title), Lower(title))}

\* the [:10] of the roles in get_movie_details
TopActors == 10
\* the [:20] of similar_movies
TopSimilar == 20

\* the details dict of get_movie_details, of what the model keeps of a movie
MovieDetails(movie) ==
    [title |-> movie.title, year |-> movie.year, rating |-> movie.rating,
     summary |-> movie.summary, genres |-> movie.genres, directors |-> movie.directors,
     actors |-> [i \in 1..Min(TopActors, Len(movie.roles)) |->
                    [name |-> movie.roles[i], role |-> ""]]]

DefaultFactors == <<"genres", "directors", "actors", "decade">>

\* A faulty variant of Similarity: a shared director counts 2.
Similarity_DirectorTwo(movie, ref_data, similarity_factors) ==
    LET genre_overlap == Range(ref_data.genres) \cap Range(movie.genres)
        director_overlap == Range(ref_data.directors) \cap Range(movie.directors)
        actor_overlap == {a.name : a \in Range(ref_data.actors)} \cap Range(movie.roles)
        same_decade == /\ Truthy(ref_data.year) /\ Truthy(movie.year)
                       /\ DecadeOf(ref_data.year.n) = DecadeOf(movie.year.n)
        Counted(factor, on) == factor \in Range(similarity_factors) /\ on
    IN  [score |-> (IF Counted("genres", genre_overlap # {})
                    THEN Cardinality(genre_overlap) * 2 ELSE 0)
                 + (IF Counted("directors", director_overlap # {})
                    THEN Cardinality(director_overlap) * 2 ELSE 0)
                 + (IF Counted("actors", actor_overlap # {})
                    THEN Cardinality(actor_overlap) ELSE 0)
                 + (IF Counted("decade", same_decade) THEN 1 ELSE 0),
         reasons |-> <<>>]

\* similarity_score and similarity_reasons of one movie of the scan.  A reason is kept
\* as its label and the tags it names (the text joins them in set order, three of the
\* actors at most).
Similarity(movie, ref_data, similarity_factors) ==
    LET genre_overlap == Range(ref_data.genres) \cap Range(movie.genres)
        director_overlap == Range(ref_data.directors) \cap Range(movie.directors)
        actor_overlap == {a.name : a \in Range(ref_data.actors)} \cap Range(movie.roles)
        same_decade == /\ Truthy(ref_data.year) /\ Truthy(movie.year)
                       /\ DecadeOf(ref_data.year.n) = DecadeOf(movie.year.n)
        Counted(factor, on) == factor \in Range(similarity_factors) /\ on
    IN  [score |-> (IF Counted("genres", genre_overlap # {})
                    THEN Cardinality(genre_overlap) * 2 ELSE 0)
                 + (IF Counted("directors", director_overlap # {})
                    THEN Cardinality(director_overlap) * 3 ELSE 0)
                 + (IF Counted("actors", actor_overlap # {})
                    THEN Cardinality(actor_overlap) ELSE 0)
                 + (IF Counted("decade", same_decade) THEN 1 ELSE 0),
         reasons |->
             (IF Counted("genres", genre_overlap # {})
              THEN <<[reason |-> "Shared genres", tags |-> genre_overlap]>> ELSE <<>>)
             \o (IF Counted("directors", director_overlap # {})
                 THEN <<[reason |-> "Shared directors", tags |-> director_overlap]>>
                 ELSE <<>>)
             \o (IF Counted("actors", actor_overlap # {})
                 THEN <<[reason |-> "Shared actors", tags |-> actor_overlap]>> ELSE <<>>)
             \o (IF Counted("decade", same_decade)
                 THEN <<[reason |-> "Same decade", tags |-> {DecadeOf(movie.year.n)}]>>
                 ELSE <<>>)]

RECURSIVE SimilarScan(_, _, _, _, _)
\* the loop of find_similar_by_metadata over the movies left to scan
SimilarScan(movies, reference_movie, ref_data, similarity_factors, similar_movies) ==
    IF movies = <<>> THEN similar_movies
    ELSE LET movie == Head(movies)
             sim == Similarity(movie, ref_data, similarity_factors)
         IN  SimilarScan(Tail(movies), reference_movie, ref_data, similarity_factors,
                 IF Lower(movie.title) = Lower(reference_movie) THEN similar_movies
                 ELSE IF sim.score > 0
                 THEN Append(similar_movies,
                             [title |-> movie.title, year |-> movie.year,
                              rating |-> movie.rating, genres |-> movie.genres,
                              similarity_score |-> sim.score,
                              similarity_reasons |-> sim.reasons])
                 ELSE similar_movies)

\* find_similar_by_metadata on a library that answers: results is what
\* section.search(title=reference_movie, limit=1) returned
similar_movies(reference_movie, similarity_factors, results) ==
    LET factors == IF similarity_factors = None THEN DefaultFactors
                   ELSE similarity_factors.items
    IN  IF results = <<>>
        THEN [error |-> "Movie '" \o reference_movie \o "' not found"]
        ELSE LET ref_data == MovieDetails(results[1])
                 all_movies == library
                 found == SimilarScan(all_movies, reference_movie, ref_data, factors, <<>>)
                 Score(item) == item.similarity_score
             IN  [reference_movie |-> reference_movie,
                  similar_movies |-> Top(SortDesc(found, Score), TopSimilar),
                  similarity_factors |-> factors,
                  total_found |-> Len(found)]

\* [tag.lower() for tag in tags]
LowerAll(tags) == [i \in DOMAIN tags |-> Lower(tags[i])]

\* [w for w in wanted if w.lower() in [tag.lower() for tag in tags]]
TagMatches(wanted, tags) ==
    LET Listed(w) == Lower(w) \in Range(LowerAll(tags))
    IN  SelectSeq(wanted, Listed)

\* matches and match_reasons of one movie of the scan of search_multi_criteria: each
\* filter runs when its criterion is true and no filter before it failed
CriteriaMatch(movie, genres, directors, actors, year_range, min_rating) ==
    LET genre_matches == TagMatches(genres.items, movie.genres)
        by_genres == Truthy(genres) => genre_matches # <<>>
        director_matches == TagMatches(directors.items, movie.directors)
        by_directors == by_genres /\ (Truthy(directors) => director_matches # <<>>)
        actor_matches == TagMatches(actors.items, movie.roles)
        by_actors == by_directors /\ (Truthy(actors) => actor_matches # <<>>)
        movie_year == movie.year
        by_year ==
            /\ by_actors
            /\ Truthy(year_range) =>
                   /\ Truthy(movie_year)
                   /\ year_range.items[1] <= movie_year.n
                   /\ movie_year.n <= year_range.items[2]
        movie_rating == movie.rating
        by_rating ==
            /\ by_year
            /\ Truthy(min_rating) =>
                   /\ Truthy(movie_rating)
                   /\ ~(movie_rating.n < min_rating.n)
    IN  [matches |-> by_rating,
         match_reasons |->
             (IF Truthy(genres) /\ by_genres
              THEN <<[reason |-> "Genres", of |-> ListOf(genre_matches)]>> ELSE <<>>)
             \o (IF Truthy(directors) /\ by_directors
                 THEN <<[reason |-> "Directors", of |-> ListOf(director_matches)]>>
                 ELSE <<>>)
             \o (IF Truthy(actors) /\ by_actors
                 THEN <<[reason |-> "Actors", of |-> ListOf(actor_matches)]>> ELSE <<>>)
             \o (IF Truthy(year_range) /\ by_year
                 THEN <<[reason |-> "Year", of |-> movie_year]>> ELSE <<>>)
             \o (IF Truthy(min_rating) /\ by_rating
                 THEN <<[reason |-> "Rating", of |-> movie_rating]>> ELSE <<>>)]

RECURSIVE CriteriaScan(_, _, _, _)
\* the loop of search_multi_criteria over the movies left to scan; criteria holds the
\* five of them
CriteriaScan(movies, criteria, limit, matching_movies) ==
    IF movies = <<>> THEN matching_movies
    ELSE LET movie == Head(movies)
             found == CriteriaMatch(movie, criteria.genres, criteria.directors,
                                    criteria.actors, criteria.year_range,
                                    criteria.min_rating)
         IN  IF found.matches
             THEN LET appended ==
                          Append(matching_movies,
                                 [title |-> movie.title, year |-> movie.year,
                                  rating |-> movie.rating, genres |-> movie.genres,
                                  directors |-> movie.directors,
                                  match_reasons |-> found.match_reasons])
                  IN  IF Len(appended) >= limit THEN appended
                      ELSE CriteriaScan(Tail(movies), criteria, limit, appended)
             ELSE CriteriaScan(Tail(movies), criteria, limit, matching_movies)

search_multi_criteria(genres, directors, actors, year_range, min_rating, limit) ==
    LET all_movies == library
        search_criteria == [genres |-> genres, directors |-> directors, actors |-> actors,
                            year_range |-> year_range, min_rating |-> min_rating]
        matching_movies == CriteriaScan(all_movies, search_criteria, limit, <<>>)
    IN  [movies |-> matching_movies,
         search_criteria |-> search_criteria,
         total |-> Len(matching_movies)]

\* the criteria a caller gives
GenreChoices == {None, ListOf(<<"crime">>), ListOf(<<"Drama", "Comedy">>)}
DirectorChoices == {None, ListOf(<<"mann">>)}
ActorChoices == {None, ListOf(<<>>), ListOf(<<"de niro">>)}
YearRangeChoices == {None, ListOf(<<1990, 1999>>)}
RatingChoices == {None, JInt(0), JInt(8)}
DefaultLimit == 30
CriteriaLimits == {0, 1, 2, DefaultLimit}

\* the titles a caller asks for, and the factors
ReferenceTitles == {"Heat", "heat", "Ensemble", "Up"}
FactorList(items) == [t |-> "list", items |-> items]
FactorChoices ==
    {None, FactorList(DefaultFactors), FactorList(<<"genres">>),
     FactorList(<<"directors", "actors">>), FactorList(<<"decade">>), FactorList(<<>>)}

\* the years a caller asks for
Years == {1990, 1995, 1999, 2004}

\* the integers a caller passes as offset and limit to list_all_movies, and as limit
\* to the searches
Offsets == (0 - 2)..(MaxMovies + 1)
Limits == (0 - 1)..(MaxMovies + 1)
SearchLimits == 0..(MaxMovies + 1)

\* The tool methods keep no state between calls: one call is followed per library.
NotCalled == invocation = NoInvocation

InitTools ==
    /\ InitServer
    /\ library \in Libraries
    /\ invocation = NoInvocation
    /\ outcome = None

servervars ==
    <<message_queues, connections, stream, idle, post, returned, last_call, frames,
      enqueued>>

\* tools/call list_all_movies
CallListAllMovies ==
    /\ NotCalled
    /\ \E limit \in Limits, offset \in Offsets :
          /\ invocation' = [tool |-> "list_all_movies", limit |-> limit, offset |-> offset]
          /\ outcome' = list_all_movies(limit, offset)
    /\ UNCHANGED <<servervars, library>>

\* tools/call search_by_year_range
CallSearchByYearRange ==
    /\ NotCalled
    /\ \E start_year \in Years, end_year \in Years, limit \in SearchLimits :
          /\ invocation' = [tool |-> "search_by_year_range", start_year |-> start_year,
                            end_year |-> end_year, limit |-> limit]
          /\ outcome' = search_by_year_range(start_year, end_year, limit)
    /\ UNCHANGED <<servervars, library>>

\* tools/call get_library_stats
CallGetLibraryStats ==
    /\ NotCalled
    /\ invocation' = [tool |-> "get_library_stats"]
    /\ outcome' = get_library_stats
    /\ UNCHANGED <<servervars, library>>

\* tools/call find_similar_by_metadata
CallFindSimilar ==
    /\ NotCalled
    /\ \E reference_movie \in ReferenceTitles, similarity_factors \in FactorChoices :
          \E results \in IF TitleMatches(reference_movie) = {} THEN {<<>>}
                          ELSE {<<library[i]>> : i \in TitleMatches(reference_movie)} :
             /\ invocation' = [tool |-> "find_similar_by_metadata",
                               reference_movie |-> reference_movie,
                               similarity_factors |-> similarity_factors,
                               results |-> results]
             /\ outcome' = similar_movies(reference_movie, similarity_factors, results)
    /\ UNCHANGED <<servervars, library>>

\* tools/call search_multi_criteria
CallSearchMultiCriteria ==
    /\ NotCalled
    /\ \E genres \in GenreChoices, directors \in DirectorChoices, actors \in ActorChoices,
          year_range \in YearRangeChoices, min_rating \in RatingChoices,
          limit \in CriteriaLimits :
          /\ invocation' = [tool |-> "search_multi_criteria", genres |-> genres,
                            directors |-> directors, actors |-> actors,
                            year_range |-> year_range, min_rating |-> min_rating,
                            limit |-> limit]
          /\ outcome' = search_multi_criteria(genres, directors, actors, year_range,
                                              min_rating, limit)
    /\ UNCHANGED <<servervars, library>>

NextTools ==
    \/ CallListAllMovies
    \/ CallSearchByYearRange
    \/ CallGetLibraryStats
    \/ CallFindSimilar

\* The tool methods on every small library.
SpecTools == InitTools /\ [][NextTools]_vars

\* the libraries searched by criteria: rated and unrated movies, with and without genres,
\* directors, roles and year
CriteriaLibraries ==
    UNION {[1..n -> {Heat, Ronin, Collateral, Untitled}] : n \in 0..MaxMovies}

InitCriteria ==
    /\ InitServer
    /\ library \in CriteriaLibraries
    /\ invocation = NoInvocation
    /\ outcome = None

NextCriteria == CallSearchMultiCriteria

SpecCriteria == InitCriteria /\ [][NextCriteria]_vars

(***************************************************************************)
(* What the properties below read off the state.                           *)
(***************************************************************************)
Answered == returned.response # None
Resp == returned.response
Req == returned.body.json
IsMapping == returned.body.ok /\ Req.t = "dict"
ReqId == Get(Req, "id", None)
ReqMethod == Get(Req, "method", None)
ReqParams == Get(Req, "params", EmptyDict)
IsToolsCall == IsMapping /\ ReqMethod = JStr("tools/call")
ReqName == Get(ReqParams, "name", None)
ReqArguments == Get(ReqParams, "arguments", EmptyDict)
RegisteredNames == {JStr(n) : n \in Range(tools)}
NamesRegisteredTool == IsToolsCall /\ ReqParams.t = "dict" /\ ReqName \in RegisteredNames

OneOfResultError(r) == ("result" \in DOMAIN r) # ("error" \in DOMAIN r)
IsErrorResponse(r, code) ==
    "error" \in DOMAIN r /\ "result" \notin DOMAIN r /\ r.error.code = code
\* a success response whose single text block is the text of an {"error": ...} dict
IsErrorPayloadResult(r) ==
    /\ "result" \in DOMAIN r
    /\ "error" \notin DOMAIN r
    /\ Len(r.result.content) = 1
    /\ r.result.content[1].type = "text"
    /\ Len(r.result.content[1].text) > 10
    /\ SubSeq(r.result.content[1].text, 1, 10) = "{'error': "

(***************************************************************************)
(* C1: every response returned to a POST, by the router and by the parse    *)
(* error paths, holds exactly one of "result" and "error".                 *)
(***************************************************************************)
C1_ExactlyOneOfResultError ==
    (post.pc = "idle" /\ returned.endpoint # "") =>
        /\ Answered
        /\ OneOfResultError(Resp)

C1_Witness ==
    /\ Answered
    /\ returned.endpoint = "/sse"
    /\ IsToolsCall
    /\ "result" \in DOMAIN Resp

(***************************************************************************)
(* C2: the response to a request that is a mapping carries the request's   *)
(* id, None when the request has none; a request without id is answered.   *)
(***************************************************************************)
C2_IdEchoed ==
    (post.pc = "idle" /\ returned.endpoint # "" /\ IsMapping) =>
        /\ Answered
        /\ Resp.id = ReqId

C2_Witness ==
    /\ Answered
    /\ IsToolsCall
    /\ "id" \notin DOMAIN Req.d
    /\ Resp.id = None
    /\ IsErrorResponse(Resp, -32603)

(***************************************************************************)
(* C3: a tools/call whose params.name is not in the registry, and a method *)
(* other than initialize, tools/list and tools/call, is answered by error  *)
(* -32601 with no result, and no tool method is invoked.                   *)
(***************************************************************************)
C3_UnknownNameIs32601 ==
    Answered /\ IsMapping =>
       /\ (IsToolsCall /\ ReqParams.t = "dict" /\ ReqName \notin RegisteredNames) =>
             /\ IsErrorResponse(Resp, -32601)
             /\ last_call = None
       /\ ReqMethod \notin {JStr("initialize"), JStr("tools/list"), JStr("tools/call")} =>
             /\ IsErrorResponse(Resp, -32601)
             /\ Resp.error.message = "Unknown method: " \o Format(ReqMethod)
             /\ last_call = None

(***************************************************************************)
(* C4: a POST whose body is not JSON, or is JSON but no mapping, is        *)
(* answered by the parse error response with id None.                      *)
(***************************************************************************)
C4_MalformedBodyIsParseError ==
    (returned.endpoint # "" /\ post.pc = "idle" /\ ~IsMapping) =>
        Resp = [jsonrpc |-> "2.0", id |-> None,
                error |-> [code |-> -32700, message |-> "Parse error"]]

C4_Witness ==
    /\ Answered
    /\ returned.endpoint = "/messages"
    /\ returned.body.ok
    /\ Req.t = "list"

(***************************************************************************)
(* C5: an exception raised while a recognized method is dispatched is      *)
(* answered by error -32603 with the exception's message and the request's *)
(* id.  The exceptions of a dispatch: params that is no mapping, a name    *)
(* that cannot be hashed, and the TypeError of binding the arguments.      *)
(***************************************************************************)
DispatchException ==
    IF ~IsToolsCall THEN None
    ELSE IF ReqParams.t # "dict"
    THEN Raise("AttributeError",
               "'" \o TypeName(ReqParams) \o "' object has no attribute 'get'")
    ELSE IF ReqName.t \in {"list", "dict"}
    THEN Raise("TypeError", "unhashable type: '" \o TypeName(ReqName) \o "'")
    ELSE IF ReqName \in RegisteredNames /\ IsRaise(Bind(ReqName.s, ReqArguments))
    THEN Bind(ReqName.s, ReqArguments)
    ELSE None

\* C5: a dispatch that raises is answered by error -32603 carrying the exception's
\* message and the request's id, and no tool method has run.
C5_ExceptionIs32603 ==
    (Answered /\ IsMapping /\ DispatchException # None) =>
        /\ Resp = [jsonrpc |-> "2.0", id |-> ReqId,
                   error |-> [code |-> -32603, message |-> DispatchException.message]]
        /\ last_call = None

C5_Witness ==
    /\ Answered
    /\ NamesRegisteredTool
    /\ ReqArguments.t = "list"
    /\ ReqId = JInt(1)
    /\ IsErrorResponse(Resp, -32603)

(***************************************************************************)
(* C6: when the catalog access of an invoked tool method fails, or a       *)
(* detail lookup finds no item, the response is a success whose single     *)
(* text block is an {"error": message} dict; for a title that is not found *)
(* the message is "Movie '<title>' not found".                             *)
(***************************************************************************)
OperationFails(tool, catalog) ==
    \/ catalog.status # "ok"
    \/ tool \in {"get_movie_details", "find_similar_by_metadata"} /\ ~catalog.found
    \/ tool = "find_similar_by_metadata" /\ catalog.scan # "ok"

TitleNotFound(tool, catalog) ==
    /\ tool \in {"get_movie_details", "find_similar_by_metadata"}
    /\ catalog.status = "ok"
    /\ ~catalog.found

\* C6: a failed operation of an invoked tool is answered by a success response whose
\* text is an {'error': message} dict.
C6_OperationalErrorIsResult ==
    (Answered /\ returned.catalog # None /\ last_call # None) =>
        /\ OperationFails(last_call.tool, returned.catalog) => IsErrorPayloadResult(Resp)
        /\ TitleNotFound(last_call.tool, returned.catalog) =>
              Resp.result.content[1].text = "{'error': \"Movie 'Zed' not found\"}"

C6_Witness ==
    /\ Answered
    /\ returned.catalog # None
    /\ last_call # None
    /\ last_call.tool = "get_movie_details"
    /\ TitleNotFound(last_call.tool, returned.catalog)

(***************************************************************************)
(* C7: a tools/call to a registered tool whose arguments lack a required   *)
(* parameter.  As claimed: answered by a success response whose content is *)
(* an error payload.  As the code has it: the TypeError of the call is     *)
(* answered by error -32603 and the tool method does not run.  Either way  *)
(* an optional parameter left out takes its declared default.              *)
(***************************************************************************)
GivenArguments == DOMAIN ReqArguments.d

LacksRequired ==
    /\ Answered
    /\ NamesRegisteredTool
    /\ ReqArguments.t = "dict"
    /\ GivenArguments \subseteq Parameters(ReqName.s)
    /\ \E p \in Range(Required(ReqName.s)) : p \notin GivenArguments

DefaultsTaken ==
    (Answered /\ last_call # None) =>
        /\ \A p \in DOMAIN Defaults(last_call.tool) \ GivenArguments :
              last_call.args[p] = Defaults(last_call.tool)[p]
        /\ (last_call.tool = "list_all_movies" /\ GivenArguments = {}
              /\ returned.catalog.status = "ok") =>
              Resp.result.content[1].text =
                  "{'movies': ..., 'total': ..., 'offset': 0, 'limit': 100, 'has_more': ...}"

\* C7 as claimed: a call that lacks a required parameter is answered by a success
\* response whose content is an error payload.
C7_MissingRequiredIsHandlerError ==
    /\ LacksRequired => IsErrorPayloadResult(Resp)
    /\ DefaultsTaken

\* C7 as the code has it: a call that lacks a required parameter is answered by error
\* -32603 with no result and the tool method does not run; defaults are taken.
C7_MissingRequiredIs32603 ==
    /\ LacksRequired => IsErrorResponse(Resp, -32603) /\ last_call = None
    /\ DefaultsTaken

C7_Witness ==
    /\ LacksRequired
    /\ ReqName = JStr("search_by_year_range")
    /\ GivenArguments = {"start_year"}
    /\ IsErrorResponse(Resp, -32603)

(***************************************************************************)
(* C8: the names tools/list returns include every key of the registry and  *)
(* every tool a tools/call has invoked, and no name is listed twice.       *)
(***************************************************************************)
C8_ToolsListCoversRegistry ==
    /\ (Answered /\ IsMapping /\ ReqMethod = JStr("tools/list")) =>
          /\ "result" \in DOMAIN Resp
          /\ Range(tools) \subseteq Range(Resp.result.tools)
          /\ \A i, j \in 1..Len(Resp.result.tools) :
                Resp.result.tools[i] = Resp.result.tools[j] => i = j
    /\ last_call # None => last_call.tool \in Range(_handle_tools_list(None).result.tools)

C8_Witness ==
    /\ Answered
    /\ IsMapping
    /\ ReqMethod = JStr("tools/list")
    /\ Len(Resp.result.tools) = Len(tools)

(***************************************************************************)
(* C9: the response of a POST to /sse and the queues.  As claimed: every   *)
(* response POST /sse returns is appended once to the queue of every open  *)
(* stream.  As the code has it: that holds of the responses handle_message *)
(* produces; the parse error response is returned and put on no queue.     *)
(***************************************************************************)
PostSseReturns == post.pc # "idle" /\ post'.pc = "idle" /\ post.endpoint = "/sse"

EnqueuedOnceEverywhere ==
    /\ DOMAIN message_queues' = DOMAIN message_queues
    /\ \A c \in DOMAIN message_queues :
          message_queues'[c] = Append(message_queues[c], returned'.response)

\* C9 as claimed: whatever POST /sse returns was appended once to every open queue.
C9_EveryResponseBroadcast == [][PostSseReturns => EnqueuedOnceEverywhere]_vars

\* C9 as the code has it: a response of handle_message is appended once to every open
\* queue and returned; the parse error response is returned and no queue changes.
C9_HandledResponseBroadcast ==
    [][PostSseReturns =>
         IF returned'.body.ok /\ returned'.body.json.t = "dict"
         THEN EnqueuedOnceEverywhere
         ELSE /\ message_queues' = message_queues
              /\ IsErrorResponse(returned'.response, -32700)]_vars

C9_Witness ==
    /\ Answered
    /\ returned.endpoint = "/sse"
    /\ Cardinality(DOMAIN message_queues) > 1
    /\ \A c \in DOMAIN message_queues :
          /\ message_queues[c] # <<>>
          /\ message_queues[c][Len(message_queues[c])] = Resp

(***************************************************************************)
(* C10: a request blocked in its catalog query does not keep another       *)
(* connection's stream loop from its keepalive: no waiting stream is ever  *)
(* past its keepalive deadline.                                            *)
(***************************************************************************)
C10_KeepaliveNotDelayed ==
    \A c \in ClientIds : Waiting(c) => idle[c] <= KeepaliveTimeout

(***************************************************************************)
(* C11: the client id of a closed stream is in neither map: every id that  *)
(* has a queue or a connection record belongs to a stream that was opened  *)
(* and has not been closed, whatever opens, closes and POSTs came before.  *)
(***************************************************************************)
C11_ClosedStreamsLeaveNoRecord ==
    \A c \in ClientIds :
        (c \in DOMAIN message_queues \/ c \in connections) => Open(c)

C11_Witness ==
    /\ Answered
    /\ returned.endpoint = "/sse"
    /\ \E c, d \in ClientIds :
          /\ stream[c] = "closed"
          /\ c \notin DOMAIN message_queues
          /\ c \notin connections
          /\ Waiting(d)
          /\ d \in DOMAIN message_queues
          /\ d \in connections

(***************************************************************************)
(* C12: a stream closes while a POST to /sse is in flight.  The response   *)
(* is put on no queue of a client that has none (no queue appears for it,  *)
(* nothing is recorded as sent to it or yielded by it), and the POST       *)
(* returns the response of handle_message, not a failure.                  *)
(***************************************************************************)
NoQueue(c) == c \notin DOMAIN message_queues

NothingForRemovedQueue ==
    \A c \in ClientIds :
        NoQueue(c) =>
            /\ c \in DOMAIN message_queues' => message_queues'[c] = <<>>
            /\ enqueued'[c] = <<>>
            /\ frames'[c] = <<>>

PostUnharmed ==
    (PostSseReturns /\ post'.pc = "idle" /\ returned'.body.ok
        /\ returned'.body.json.t = "dict" /\ returned'.gone # {}) =>
        /\ "result" \in DOMAIN returned'.response
        /\ \A c \in DOMAIN message_queues :
              message_queues'[c] = Append(message_queues[c], returned'.response)

\* C12: no step puts or yields a response for a client without a queue, and a POST
\* that lost a client while in flight still returns its response and broadcasts it.
C12_NoEnqueueOnRemovedQueue == [][NothingForRemovedQueue /\ PostUnharmed]_vars

C12_Witness ==
    /\ Answered
    /\ returned.endpoint = "/sse"
    /\ returned.gone # {}
    /\ "result" \in DOMAIN Resp
    /\ \E c \in returned.gone : NoQueue(c) /\ stream[c] = "closed"
    /\ \E d \in DOMAIN message_queues :
          /\ message_queues[d] # <<>>
          /\ message_queues[d][Len(message_queues[d])] = Resp

(***************************************************************************)
(* C13: the first frame of every stream is the initialization              *)
(* notification, no later frame of the stream is, nothing is yielded       *)
(* before it, and a stream is opened under a client id that no open stream *)
(* has, with a new empty queue.                                            *)
(***************************************************************************)
InitializedNotification ==
    [data |-> [json |-> [jsonrpc |-> "2.0", method |-> "notifications/initialized",
                         params |-> EmptyMap]]]

FirstFrameIsInit ==
    \A c \in ClientIds :
        /\ Open(c) => c \in DOMAIN message_queues
        /\ Waiting(c) => frames[c] # <<>>
        /\ ~Waiting(c) => frames[c] = <<>>
        /\ frames[c] # <<>> =>
              /\ frames[c][1] = InitializedNotification
              /\ \A i \in 2..Len(frames[c]) : frames[c][i] # InitializedNotification

OpenedUnderFreshId ==
    \A c \in ClientIds :
        (stream[c] # "created" /\ stream'[c] = "created") =>
            /\ ~Open(c)
            /\ c \notin DOMAIN message_queues
            /\ c \notin connections
            /\ message_queues'[c] = <<>>
            /\ c \in connections'
            /\ \A d \in DOMAIN message_queues :
                  d \in DOMAIN message_queues' /\ message_queues'[d] = message_queues[d]

\* C13: the initialization notification is the first frame of each stream and is
\* yielded once, before any response or keepalive; each stream opens under a fresh id.
C13_InitFrameFirstAndOnce == []FirstFrameIsInit /\ [][OpenedUnderFreshId]_vars

C13_Witness ==
    \E c, d \in ClientIds :
        /\ c # d
        /\ Waiting(c)
        /\ Open(d)
        /\ Len(frames[c]) >= 3
        /\ \E i, j \in 2..Len(frames[c]) :
              frames[c][i] = KeepaliveFrame /\ "json" \in DOMAIN frames[c][j].data

(***************************************************************************)
(* C14: a stream whose wait has lasted the keepalive timeout yields one    *)
(* keepalive and starts a new wait: a keepalive is yielded only when the   *)
(* timeout has run out, it is yielded before the stream has waited any     *)
(* longer, and yielding it neither closes the stream nor touches its queue.*)
(***************************************************************************)
KeepaliveYielded(c) ==
    /\ Len(frames'[c]) = Len(frames[c]) + 1
    /\ frames'[c][Len(frames'[c])] = [data |-> [text |-> "keepalive"]]

KeepaliveOnlyOnTimeout ==
    \A c \in ClientIds :
        KeepaliveYielded(c) =>
            /\ Waiting(c)
            /\ idle[c] >= KeepaliveTimeout
            /\ idle'[c] = 0
            /\ stream'[c] = "waiting"
            /\ c \in DOMAIN message_queues'
            /\ message_queues'[c] = message_queues[c]
            /\ SubSeq(frames'[c], 1, Len(frames[c])) = frames[c]

KeepaliveNotOverdue ==
    \A c \in ClientIds : Waiting(c) => idle[c] <= KeepaliveTimeout

\* C14: one keepalive per idle interval of the keepalive timeout: none before the
\* timeout, none missing after it, and the stream and its queue are left as they were.
C14_OneKeepalivePerIdleInterval ==
    []KeepaliveNotOverdue /\ [][KeepaliveOnlyOnTimeout]_vars

(***************************************************************************)
(* C20: per stream, the responses yielded so far followed by the responses *)
(* still on the queue are the responses put on the queue, in the order     *)
(* they were put; keepalive frames change nothing of that; and a response  *)
(* put on the queue of a stream is yielded unless the stream closes.       *)
(***************************************************************************)
RECURSIVE Responses(_)
\* the responses among the frames fs, in order
Responses(fs) ==
    IF fs = <<>> THEN <<>>
    ELSE IF "json" \in DOMAIN fs[1].data /\ "id" \in DOMAIN fs[1].data.json
         THEN <<fs[1].data.json>> \o Responses(Tail(fs))
         ELSE Responses(Tail(fs))

Delivered(c) == Responses(frames[c])

FifoPrefix ==
    \A c \in ClientIds :
        Open(c) => Delivered(c) \o message_queues[c] = enqueued[c]

EventuallyDelivered ==
    \A c \in ClientIds : \A n \in 1..MaxFrames :
        (Open(c) /\ Len(enqueued[c]) >= n) ~> (~Open(c) \/ Len(Delivered(c)) >= n)

\* C20: the responses a stream has yielded are a prefix of those put on its queue, in
\* order and once each, whatever keepalives came between, and the rest follow.
C20_FifoDelivery == []FifoPrefix /\ EventuallyDelivered

C20_Witness ==
    \E c \in ClientIds :
        /\ Waiting(c)
        /\ message_queues[c] = <<>>
        /\ Len(Delivered(c)) >= 2
        /\ Delivered(c)[1] # Delivered(c)[2]
        /\ Delivered(c) = enqueued[c]
        /\ \E i \in 2..Len(frames[c]) : frames[c][i] = KeepaliveFrame

(***************************************************************************)
(* C19: the order of the names tools/list returns.  As claimed: the order  *)
(* in which the tools are registered.  As the code has it: the order of    *)
(* the descriptors in get_tool_definitions, which is the registration      *)
(* order with get_library_stats moved to the front.                        *)
(***************************************************************************)
AnsweredToolsList == Answered /\ IsMapping /\ ReqMethod = JStr("tools/list")

NotLibraryStats(name) == name # "get_library_stats"

\* C19 as claimed: the i-th name of the tools/list result is the i-th registered name.
C19_ListInRegistrationOrder ==
    AnsweredToolsList =>
        /\ Len(Resp.result.tools) = Len(tools)
        /\ \A i \in 1..Len(tools) : Resp.result.tools[i] = tools[i]

\* C19 as the code has it: the tools/list result is get_library_stats followed by the
\* other registered names in registration order.
C19_ListIsRegistryWithStatsFirst ==
    AnsweredToolsList =>
        Resp.result.tools = <<"get_library_stats">> \o SelectSeq(tools, NotLibraryStats)

C19_Witness ==
    /\ AnsweredToolsList
    /\ Resp.result.tools[1] = "get_library_stats"
    /\ tools[1] = "list_all_movies"
    /\ Resp.result.tools[10] = tools[10]

(***************************************************************************)
(* C15: the page list_all_movies returns.  As claimed, for every integer   *)
(* offset and limit: has_more = (offset + limit < total) and the page      *)
(* holds min(limit, max(0, total - offset)) movies.  As the code has it:   *)
(* that holds when neither offset nor limit is negative.                   *)
(***************************************************************************)
ListedAll == invocation.tool = "list_all_movies"

PageAsClaimed ==
    /\ outcome.total = Len(library)
    /\ outcome.has_more = (invocation.offset + invocation.limit < Len(library))
    /\ Len(outcome.movies) =
          Min(invocation.limit, Max(0, Len(library) - invocation.offset))

\* C15 as claimed: the page size and has_more for any integer offset and limit.
C15_PaginationAnyIntegers == ListedAll => PageAsClaimed

\* C15 as the code has it: the page size and has_more for offset >= 0 and limit >= 0,
\* where the page is the movies at positions offset+1 .. offset+size of the library.
C15_PaginationNonNegative ==
    (ListedAll /\ invocation.offset >= 0 /\ invocation.limit >= 0) =>
        /\ PageAsClaimed
        /\ \A i \in 1..Len(outcome.movies) :
              outcome.movies[i].title = library[invocation.offset + i].title

C15_Witness ==
    /\ ListedAll
    /\ Len(library) = 3
    /\ invocation.offset = 1
    /\ invocation.limit = 1
    /\ outcome.has_more
    /\ Len(outcome.movies) = 1

(***************************************************************************)
(* C16: search_by_year_range returns only movies that have a year, within  *)
(* start_year..end_year; it returns no more than limit movies; and total   *)
(* is the number of movies returned.                                       *)
(***************************************************************************)
SearchedYearRange == invocation.tool = "search_by_year_range"

ReturnedWithinRange ==
    \A i \in 1..Len(outcome.movies) :
        /\ outcome.movies[i].year # None
        /\ invocation.start_year <= outcome.movies[i].year.n
        /\ outcome.movies[i].year.n <= invocation.end_year

\* C16: every movie returned has a year within the range, at most limit movies are
\* returned, and total counts them.
C16_YearRangeWithinLimit ==
    SearchedYearRange =>
        /\ ReturnedWithinRange
        /\ Len(outcome.movies) <= invocation.limit
        /\ outcome.total = Len(outcome.movies)

(***************************************************************************)
(* C17: the decades of get_library_stats.  Each movie that has a year is   *)
(* counted under the one key "<decade>s", the decade being the year with   *)
(* its last digit made 0 (1994 under "1990s"), so the counts add up to the *)
(* number of movies that have a year.                                      *)
(***************************************************************************)
GotStats == invocation.tool = "get_library_stats"

WithYear == {i \in 1..Len(library) : library[i].year # None}

DecadeLabel(y) == ToString(y - (y % 10)) \o "s"

RECURSIVE SumCounts(_)
SumCounts(d) == IF d = <<>> THEN 0 ELSE d[1][2] + SumCounts(Tail(d))

FoundSimilar ==
    /\ invocation.tool = "find_similar_by_metadata"
    /\ "error" \notin DOMAIN outcome

\* the item the detail lookup resolved reference_movie to
Reference == invocation.results[1]

\* the movies of the scan other than those named as reference_movie
Candidates ==
    {i \in 1..Len(library) : Lower(library[i].title) # Lower(invocation.reference_movie)}

AllFactors == {"genres", "directors", "actors", "decade"}
ChosenFactors ==
    IF invocation.similarity_factors = None THEN AllFactors
    ELSE Range(invocation.similarity_factors.items)

Shared(a, b) == Cardinality(Range(a) \cap Range(b))

SameDecade(a, b) ==
    /\ a.year # None /\ b.year # None
    /\ a.year.n \div 10 = b.year.n \div 10

\* 2 per shared genre, 3 per shared director, 1 per shared actor, 1 for the decade,
\* of the factors counted and the roles taken of the reference
WeightedOverlap(movie, factors, roles) ==
      (IF "genres" \in factors THEN 2 * Shared(movie.genres, Reference.genres) ELSE 0)
    + (IF "directors" \in factors THEN 3 * Shared(movie.directors, Reference.directors)
       ELSE 0)
    + (IF "actors" \in factors THEN Shared(movie.roles, roles) ELSE 0)
    + (IF "decade" \in factors /\ SameDecade(movie, Reference) THEN 1 ELSE 0)

\* similar_movies holds the candidates of positive score, by descending score and then
\* in scan order, the first TopSimilar of them; score is a function on Candidates
ReturnedAsScored(score) ==
    LET kept == {i \in Candidates : score[i] > 0}
        rank(i) == 1 + Cardinality({j \in kept : \/ score[j] > score[i]
                                                 \/ score[j] = score[i] /\ j < i})
        n == Min(TopSimilar, Cardinality(kept))
    IN  /\ Len(outcome.similar_movies) = n
        /\ \A i \in kept :
              rank(i) <= n =>
                 /\ outcome.similar_movies[rank(i)].title = library[i].title
                 /\ outcome.similar_movies[rank(i)].similarity_score = score[i]

\* C18 as stated: every candidate is scored 2 per shared genre + 3 per shared director
\* + 1 per shared actor + 1 for the same decade; the candidates of positive score are
\* returned by descending score, ties in scan order, 20 at most.
C18_ScoredOnAllFour ==
    FoundSimilar =>
        ReturnedAsScored([i \in Candidates |->
                             WeightedOverlap(library[i], AllFactors, Reference.roles)])

\* C18 as amended: the score counts the factors named in similarity_factors (all four
\* when it is omitted), and an actor is shared when among the first ten roles of the
\* reference; the candidates of positive score are returned by descending score, ties
\* in scan order, 20 at most.
C18_ScoredOnChosenFactors ==
    FoundSimilar =>
        ReturnedAsScored([i \in Candidates |->
                             WeightedOverlap(library[i], ChosenFactors,
                                             Top(Reference.roles, TopActors))])

\* more than 20 movies like Heat, Collateral among them with its score of 5
C18_Witness ==
    /\ FoundSimilar
    /\ invocation.similarity_factors = None
    /\ Reference = Heat
    /\ outcome.total_found > TopSimilar
    /\ Len(outcome.similar_movies) = TopSimilar
    /\ \E k \in 1..Len(outcome.similar_movies) :
          /\ outcome.similar_movies[k].title = "Collateral"
          /\ outcome.similar_movies[k].similarity_score = 5


(***************************************************************************)
(* C21: the reference item is not among the similar movies                 *)
(***************************************************************************)
ReturnedTitles ==
    {outcome.similar_movies[k].title : k \in 1..Len(outcome.similar_movies)}

\* C21: find_similar_by_metadata never returns the item the detail lookup resolved
\* reference_movie to, whatever the library and the reference_movie.  (A title names
\* one item of the model's libraries.)
C21_ReferenceNotReturned ==
    FoundSimilar => Reference.title \notin ReturnedTitles

\* what the code excludes: the movies titled as the reference_movie string
TitledAsAsked ==
    FoundSimilar =>
        \A k \in 1..Len(outcome.similar_movies) :
            Lower(outcome.similar_movies[k].title) # Lower(invocation.reference_movie)


(***************************************************************************)
(* C22: search_multi_criteria                                              *)
(***************************************************************************)
SearchedCriteria ==
    /\ invocation.tool = "search_multi_criteria"
    /\ "error" \notin DOMAIN outcome

\* a criterion is provided: not null, and not empty if a list
Provided(criterion) == criterion # None /\ criterion # ListOf(<<>>)

\* one tag at least of the listed ones is among the tags, whatever the case
OneListed(listed, tags) ==
    \E w \in Range(listed.items) : \E tag \in Range(tags) : Lower(w) = Lower(tag)

\* the movie satisfies every criterion provided
SatisfiesProvided(movie) ==
    /\ Provided(invocation.genres) => OneListed(invocation.genres, movie.genres)
    /\ Provided(invocation.directors) => OneListed(invocation.directors, movie.directors)
    /\ Provided(invocation.actors) => OneListed(invocation.actors, movie.roles)
    /\ Provided(invocation.year_range) =>
          /\ movie.year # None
          /\ invocation.year_range.items[1] <= movie.year.n
          /\ movie.year.n <= invocation.year_range.items[2]
    /\ Provided(invocation.min_rating) =>
          /\ movie.rating # None
          /\ movie.rating.n >= invocation.min_rating.n

\* the movie of the library a returned item was made of (a title names one movie of
\* the model's libraries)
Titled(title) == CHOOSE movie \in Range(library) : movie.title = title

\* C22: every item search_multi_criteria returns satisfies all the criteria provided
\* (one listed tag at least for genres, directors and actors whatever the case, the year
\* within year_range, the rating at least min_rating), and the result never holds more
\* than limit items.
C22_AllProvidedCriteriaWithinLimit ==
    SearchedCriteria =>
        /\ \A k \in 1..Len(outcome.movies) :
              SatisfiesProvided(Titled(outcome.movies[k].title))
        /\ Len(outcome.movies) <= invocation.limit

====
